---- MODULE Spec2Model ----
(***************************************************************************)
(* A model of src/streamlit/app.py: the Streamlit OCR front end.  One      *)
(* behaviour is one browser session: the script is re-executed from the    *)
(* top on every interaction, st.session_state survives between the         *)
(* executions, the script's own globals do not.                            *)
(*                                                                         *)
(* Strings built by f-strings are sequences of their pieces, so            *)
(* f"Error: {status} - {body}" is <<"Error: ", ToString(status), " - ",    *)
(* body>>.  Memory is counted in MiB (bytes \div 2^20), which keeps every   *)
(* quotient the estimator takes: floor(floor(b / 2^20) / 3072) is          *)
(* floor(b / (3 * 2^30)).                                                  *)
(***************************************************************************)
EXTENDS Integers, Sequences, FiniteSets, TLC

\* Bounds of the model.
MaxRuns == 2      \* script executions in one session
MaxBatch == 2     \* pages of all the files on the user's disk together

\* Program constants.
MaxWorkersCap == 4        \* min(4, ...), line 82
MinWorkers == 1           \* max(1, ...), line 82
GBPerRequest == 3         \* free_mem // 3, line 82
FallbackWorkers == 2      \* lines 84 and 87
MiBPerGB == 1024          \* 1024**3 bytes in MiB, line 81
HttpOk == 200             \* line 139
RequestTimeout == 60      \* timeout=60, line 138

Names == {"a.pdf", "b.pdf"}

VARIABLES
    \* st.session_state
    file_results, file_times, debug_info, processed, session_uploaded_files,
    \* globals of the running script
    pc, MAX_WORKERS, uploaded_files, all_pages, total_pages, raster_idx,
    processed_pages, progress, future_to_page, st_errors,
    \* the environment
    disk, now, telemetry,
    \* observations of the previous execution, for statements about re-invocation
    last_names, captured_before, prev_results, prev_times, prev_debug

session == <<file_results, file_times, debug_info, processed, session_uploaded_files>>
script == <<pc, MAX_WORKERS, uploaded_files, all_pages, total_pages, raster_idx,
            processed_pages, progress, future_to_page, st_errors>>
history == <<last_names, captured_before, prev_results, prev_times, prev_debug>>
vars == <<session, script, disk, now, telemetry, history>>

----------------------------------------------------------------------------
\* Helpers.

EmptyDict == [k \in {} |-> {}]

DictSet(d, k, v) == [x \in (DOMAIN d) \cup {k} |-> IF x = k THEN v ELSE d[x]]

NamesOf(files) == [i \in 1..Len(files) |-> files[i].name]

Min(a, b) == IF a < b THEN a ELSE b

Max(a, b) == IF a > b THEN a ELSE b

RECURSIVE SumLens(_, _)
SumLens(d, keys) ==
    IF keys = {} THEN 0
    ELSE LET k == CHOOSE x \in keys : TRUE
         IN  Len(d[k]) + SumLens(d, keys \ {k})

----------------------------------------------------------------------------
\* The documents the user can upload: the bytes of a file decide what
\* convert_from_bytes makes of it.

PdfBytes(n) ==
    {[id |-> n, parseable |-> FALSE, npages |-> 0]}
        \cup {[id |-> n, parseable |-> TRUE, npages |-> k] : k \in 0..MaxBatch}

Disks ==
    {d \in [Names -> UNION {PdfBytes(n) : n \in Names}] :
        /\ \A n \in Names : d[n].id = n
        /\ SumLens([n \in Names |-> [i \in 1..d[n].npages |-> i]], Names) <= MaxBatch}

\* What st.file_uploader can return: the chosen files, names distinct.
Uploads ==
    {s \in UNION {[1..k -> Names] : k \in 0..Cardinality(Names)} :
        \A i, j \in DOMAIN s : i # j => s[i] # s[j]}

UploadedFile(n) == [name |-> n, data |-> disk[n]]

\* len(data): the bytes themselves are not modelled, a file with more pages is
\* longer.
ByteLen(data) == data.npages + 1

\* pdf2image.convert_from_bytes(data, dpi=150): the page images in order, or
\* an exception.
ConvertFromBytes(data) ==
    IF data.parseable
    THEN [raised |-> FALSE,
          pages |-> [i \in 1..data.npages |-> [of |-> data.id, no |-> i]]]
    ELSE [raised |-> TRUE, pages |-> <<>>]

----------------------------------------------------------------------------
\* Lines 74-87: MAX_WORKERS from the GPU telemetry.

\* What pynvml answers in one execution: the call that throws, if any, the
\* device count and the free memory of device 0.
NvmlCalls == {"nvmlInit", "nvmlDeviceGetCount", "nvmlDeviceGetHandleByIndex",
              "nvmlDeviceGetMemoryInfo", "nvmlShutdown"}

FreeMiB == {0, 3071, 3072, 6143, 6144, 9216, 12288, 81920}

\* An answer that is never read (the call before it threw, or there is no
\* device) is left 0, and so is a throw of a call that is never made.
Telemetry ==
    {t \in [throws : NvmlCalls \cup {"none"}, device_count : {0, 1}, free : FreeMiB] :
        /\ t.throws \in {"nvmlInit", "nvmlDeviceGetCount"} => t.device_count = 0
        /\ t.device_count = 0 =>
              t.throws \notin {"nvmlDeviceGetHandleByIndex", "nvmlDeviceGetMemoryInfo"}
        /\ (t.device_count = 0
             \/ t.throws \in {"nvmlDeviceGetHandleByIndex", "nvmlDeviceGetMemoryInfo"})
              => t.free = 0}

NoTelemetry == [throws |-> "unread", device_count |-> 0, free |-> 0]

\* Lines 81-82 without the max(1, ...).
WorkersForFreeNoFloor(free) ==
    Min(MaxWorkersCap, free \div (GBPerRequest * MiBPerGB))

\* Lines 81-82.
WorkersForFree(free) ==
    LET free_mem_x3 == free \div (GBPerRequest * MiBPerGB)   \* int(free_mem // 3)
    IN  Min(MaxWorkersCap, Max(MinWorkers, free_mem_x3))

\* Lines 76-85: the try block, up to the call that throws.
TryTelemetry(t) ==
    IF t.throws \in {"nvmlInit", "nvmlDeviceGetCount"}
    THEN [raised |-> TRUE, workers |-> 0]
    ELSE IF t.device_count > 0
    THEN IF t.throws \in {"nvmlDeviceGetHandleByIndex", "nvmlDeviceGetMemoryInfo"}
         THEN [raised |-> TRUE, workers |-> 0]
         ELSE [raised |-> t.throws = "nvmlShutdown", workers |-> WorkersForFree(t.free)]
    ELSE [raised |-> t.throws = "nvmlShutdown", workers |-> FallbackWorkers]

\* Lines 75-87.
ComputeMaxWorkers(t) ==
    IF TryTelemetry(t).raised THEN FallbackWorkers ELSE TryTelemetry(t).workers

----------------------------------------------------------------------------
Init ==
    /\ file_results = EmptyDict
    /\ file_times = EmptyDict
    /\ debug_info = EmptyDict
    /\ processed = FALSE
    /\ session_uploaded_files = <<>>
    /\ pc = "idle"
    /\ MAX_WORKERS = 0
    /\ uploaded_files = <<>>
    /\ all_pages = <<>>
    /\ total_pages = 0
    /\ raster_idx = 1
    /\ processed_pages = 0
    /\ progress = <<>>
    /\ future_to_page = <<>>
    /\ st_errors = {}
    /\ disk \in Disks
    /\ now = 0
    /\ telemetry = NoTelemetry
    /\ last_names = <<>>
    /\ captured_before = <<>>
    /\ prev_results = EmptyDict
    /\ prev_times = EmptyDict
    /\ prev_debug = EmptyDict

\* The script starts (an upload or any other interaction reruns it) and runs
\* lines 74-87.
EstimateCapacity(t) ==
    /\ pc = "idle"
    /\ now < MaxRuns
    /\ now' = now + 1
    /\ telemetry' = t
    /\ MAX_WORKERS' = ComputeMaxWorkers(t)
    /\ pc' = "upload"
    /\ captured_before' = NamesOf(session_uploaded_files)
    /\ UNCHANGED <<session, uploaded_files, all_pages, total_pages, raster_idx,
                   processed_pages, progress, future_to_page, st_errors, disk,
                   last_names, prev_results, prev_times, prev_debug>>

\* Line 149 without the processed flag.
GateIgnoresProcessed(files) == files # <<>>

\* Line 149: the gate of the processing block, for what the uploader returned.
GateOpen(files) == files # <<>> /\ ~processed

\* Lines 156-160: the stored files after the change detection.
CaptureUploads(files) ==
    IF NamesOf(files) # NamesOf(session_uploaded_files)
    THEN files
    ELSE session_uploaded_files

\* Lines 149-160 without the reset of lines 165-167.
EnterProcessingNoReset(names) ==
    LET files == [i \in 1..Len(names) |-> UploadedFile(names[i])]
    IN  /\ pc = "upload"
        /\ GateOpen(files)
        /\ uploaded_files' = files
        /\ session_uploaded_files' = CaptureUploads(files)
        /\ all_pages' = <<>>
        /\ total_pages' = 0
        /\ raster_idx' = 1
        /\ telemetry' = NoTelemetry
        /\ pc' = "rasterize"
        /\ UNCHANGED <<file_results, file_times, debug_info, processed, MAX_WORKERS,
                       processed_pages, progress, future_to_page, st_errors, disk, now,
                       history>>

\* Lines 106 and 149-167: the uploader returns the files, the gate is open,
\* the files are captured if their names changed and the per-run state is reset.
EnterProcessing(names) ==
    LET files == [i \in 1..Len(names) |-> UploadedFile(names[i])]
    IN  /\ pc = "upload"
        /\ GateOpen(files)
        /\ uploaded_files' = files
        /\ session_uploaded_files' = CaptureUploads(files)
        /\ all_pages' = <<>>
        /\ total_pages' = 0
        /\ file_results' = EmptyDict
        /\ file_times' = EmptyDict
        /\ debug_info' = EmptyDict
        /\ raster_idx' = 1
        /\ telemetry' = NoTelemetry
        /\ pc' = "rasterize"
        /\ UNCHANGED <<processed, MAX_WORKERS, processed_pages, progress, future_to_page,
                       st_errors, disk, now, history>>

\* Lines 106 and 149: the gate is closed, the script goes on to line 216.
SkipProcessing(names) ==
    LET files == [i \in 1..Len(names) |-> UploadedFile(names[i])]
    IN  /\ pc = "upload"
        /\ ~GateOpen(files)
        /\ uploaded_files' = files
        /\ telemetry' = NoTelemetry
        /\ pc' = "finish"
        /\ UNCHANGED <<session, MAX_WORKERS, all_pages, total_pages, raster_idx,
                       processed_pages, progress, future_to_page, st_errors, disk, now, history>>

\* Line 174 with page_idx = i.
PageItemsZeroBased(file_name, pages) ==
    [i \in 1..Len(pages) |->
        [file_name |-> file_name, page |-> pages[i], page_idx |-> i - 1]]

\* Line 174: the work items of one document, page_idx = i + 1.
PageItems(file_name, pages) ==
    [i \in 1..Len(pages) |-> [file_name |-> file_name, page |-> pages[i], page_idx |-> i]]

\* Lines 169-181: one pass of the loop, convert_from_bytes returns.
RasterizeOk ==
    /\ pc = "rasterize"
    /\ raster_idx <= Len(session_uploaded_files)
    /\ LET uploaded_file == session_uploaded_files[raster_idx]
           file_name == uploaded_file.name
           r == ConvertFromBytes(uploaded_file.data)
       IN  /\ ~r.raised
           /\ all_pages' = all_pages \o PageItems(file_name, r.pages)
           /\ total_pages' = total_pages + Len(r.pages)
           /\ file_times' = DictSet(file_times, file_name, now)
           /\ file_results' = DictSet(file_results, file_name, <<>>)
           /\ debug_info' = DictSet(debug_info, file_name,
                                    [pdf_size |-> ByteLen(uploaded_file.data),
                                     page_count |-> Len(r.pages)])
    /\ raster_idx' = raster_idx + 1
    /\ UNCHANGED <<processed, session_uploaded_files, pc, MAX_WORKERS, uploaded_files,
                   processed_pages, progress, future_to_page, st_errors, disk, now, telemetry,
                   history>>

\* Line 183.
FileError(file_name) == <<"Failed to process ", file_name, ": ", "not a PDF">>

\* Lines 169-183 with the entry of the result store made before the conversion.
RasterizeFailPlaceholder ==
    /\ pc = "rasterize"
    /\ raster_idx <= Len(session_uploaded_files)
    /\ LET uploaded_file == session_uploaded_files[raster_idx]
       IN  /\ ConvertFromBytes(uploaded_file.data).raised
           /\ st_errors' = st_errors \cup {FileError(uploaded_file.name)}
           /\ file_results' = DictSet(file_results, uploaded_file.name, <<>>)
    /\ raster_idx' = raster_idx + 1
    /\ UNCHANGED <<file_times, debug_info, processed, session_uploaded_files, pc,
                   MAX_WORKERS, uploaded_files, all_pages, total_pages,
                   processed_pages, progress, future_to_page, disk, now, telemetry,
                   history>>

\* Lines 169-173 and 182-183: one pass of the loop, convert_from_bytes raises.
RasterizeFail ==
    /\ pc = "rasterize"
    /\ raster_idx <= Len(session_uploaded_files)
    /\ LET uploaded_file == session_uploaded_files[raster_idx]
       IN  /\ ConvertFromBytes(uploaded_file.data).raised
           /\ st_errors' = st_errors \cup {FileError(uploaded_file.name)}
    /\ raster_idx' = raster_idx + 1
    /\ UNCHANGED <<session, pc, MAX_WORKERS, uploaded_files, all_pages, total_pages,
                   processed_pages, progress, future_to_page, disk, now, telemetry, history>>

\* Line 185, all_pages empty: the script goes on to line 214.
NoPages ==
    /\ pc = "rasterize"
    /\ raster_idx > Len(session_uploaded_files)
    /\ all_pages = <<>>
    /\ pc' = "finish"
    /\ UNCHANGED <<session, MAX_WORKERS, uploaded_files, all_pages, total_pages,
                   raster_idx, processed_pages, progress, future_to_page, st_errors, disk, now,
                   telemetry, history>>

NoReturn == [raised |-> FALSE, text |-> <<>>, page_time |-> 0, posted |-> FALSE]

NoBackend == [save_ok |-> TRUE, exception |-> "", status |-> 0, body |-> "", latency |-> 0]

\* Lines 185-190: every work item is submitted to the pool.
SubmitAll ==
    /\ pc = "rasterize"
    /\ raster_idx > Len(session_uploaded_files)
    /\ all_pages # <<>>
    /\ processed_pages' = 0
    /\ progress' = <<>>
    /\ future_to_page' =
          [i \in 1..Len(all_pages) |->
              [file_name |-> all_pages[i].file_name, page_idx |-> all_pages[i].page_idx,
               page |-> all_pages[i].page, state |-> "pending", ret |-> NoReturn,
               met |-> NoBackend, calls |-> 0, posts |-> 0]]
    /\ pc' = "pool"
    /\ UNCHANGED <<session, MAX_WORKERS, uploaded_files, all_pages, total_pages,
                   raster_idx, st_errors, disk, now, telemetry, history>>

----------------------------------------------------------------------------
\* Lines 111-146: process_page.

\* What one call meets: whether page.save works (lines 114-117 are outside the
\* try), and what requests.post does: a response with a status, or an
\* exception (a timeout, a refused connection, a body that is not the JSON
\* expected).  latency is the time the call takes.
Backends ==
    {[save_ok |-> TRUE, exception |-> "", status |-> HttpOk,
      body |-> "lorem ipsum", latency |-> 1],
     [save_ok |-> TRUE, exception |-> "", status |-> 500,
      body |-> "Internal Server Error", latency |-> 1],
     [save_ok |-> TRUE, exception |-> "Read timed out", status |-> 0,
      body |-> "", latency |-> RequestTimeout],
     [save_ok |-> FALSE, exception |-> "cannot write mode", status |-> 0,
      body |-> "", latency |-> 0]}

\* Lines 137-144: the text of the page.
PageText(b) ==
    IF b.exception # ""
    THEN <<"Exception: ", b.exception>>
    ELSE IF b.status = HttpOk
    THEN <<b.body>>                                     \* choices[0].message.content
    ELSE <<"Error: ", ToString(b.status), " - ", b.body>>

\* process_page with page_start_time taken after the call instead of before.
ProcessPageClockAfter(b) ==
    IF b.save_ok
    THEN [raised |-> FALSE, text |-> PageText(b), page_time |-> 0, posted |-> TRUE]
    ELSE [raised |-> TRUE, text |-> <<b.exception>>, page_time |-> 0, posted |-> FALSE]

\* Lines 111-146: what the future holds when the call ends: the returned tuple
\* (file_name, page_idx, img_b64 and page are the future's own), or the
\* exception of page.save.
ProcessPage(b) ==
    IF b.save_ok
    THEN [raised |-> FALSE, text |-> PageText(b), page_time |-> b.latency, posted |-> TRUE]
    ELSE [raised |-> TRUE, text |-> <<b.exception>>, page_time |-> 0, posted |-> FALSE]

ImgB64(page) == <<"base64(png)", page>>

InFlight == {i \in DOMAIN future_to_page : future_to_page[i].state = "running"}

\* A pool that starts a thread for every item.
CanStartWorkerUnbounded == TRUE

\* ThreadPoolExecutor(max_workers=MAX_WORKERS): a thread is there for the item.
CanStartWorker == Cardinality(InFlight) < MAX_WORKERS

\* A pool that runs an item again when its call failed.
WorkerStartRetries(i) ==
    /\ pc = "pool"
    /\ \/ future_to_page[i].state = "pending"
       \/ /\ future_to_page[i].state = "finished"
          /\ future_to_page[i].met.status # HttpOk
          /\ future_to_page[i].calls < 2
    /\ CanStartWorker
    /\ future_to_page' = [future_to_page EXCEPT ![i].state = "running",
                                                 ![i].calls = @ + 1]
    /\ UNCHANGED <<session, pc, MAX_WORKERS, uploaded_files, all_pages, total_pages,
                   raster_idx, processed_pages, progress, st_errors, disk, now,
                   telemetry, history>>

\* A worker thread takes the oldest item of the queue and calls process_page.
WorkerStart(i) ==
    /\ pc = "pool"
    /\ future_to_page[i].state = "pending"
    /\ \A j \in 1..(i - 1) : future_to_page[j].state # "pending"
    /\ CanStartWorker
    /\ future_to_page' = [future_to_page EXCEPT ![i].state = "running",
                                                 ![i].calls = @ + 1]
    /\ UNCHANGED <<session, pc, MAX_WORKERS, uploaded_files, all_pages, total_pages,
                   raster_idx, processed_pages, progress, st_errors, disk, now, telemetry, history>>

\* process_page returns or raises in its thread; met keeps what the call met,
\* calls and posts count the calls of process_page and of requests.post.
WorkerFinish(i, b) ==
    /\ pc = "pool"
    /\ future_to_page[i].state = "running"
    /\ future_to_page' = [future_to_page EXCEPT ![i].state = "finished",
                                                 ![i].ret = ProcessPage(b),
                                                 ![i].met = b,
                                                 ![i].posts =
                                                     IF ProcessPage(b).posted
                                                     THEN @ + 1 ELSE @]
    /\ UNCHANGED <<session, pc, MAX_WORKERS, uploaded_files, all_pages, total_pages,
                   raster_idx, processed_pages, progress, st_errors, disk, now, telemetry, history>>

\* Lines 198-204.
PageResult(f) ==
    [page |-> f.page_idx, text |-> f.ret.text, page_time |-> f.ret.page_time,
     img_b64 |-> ImgB64(f.page), image |-> f.page]

\* Lines 196-197: what the progress bar and the progress text are given.
ProgressNote(done, total) == [count |-> done, total |-> total]

\* Lines 191-204 with an assignment instead of the append.
CollectResultOverwrites(i) ==
    /\ pc = "pool"
    /\ future_to_page[i].state = "finished"
    /\ ~future_to_page[i].ret.raised
    /\ processed_pages' = processed_pages + 1
    /\ progress' = Append(progress, ProgressNote(processed_pages + 1, total_pages))
    /\ file_results' =
          [file_results EXCEPT ![future_to_page[i].file_name] =
              <<PageResult(future_to_page[i])>>]
    /\ future_to_page' = [future_to_page EXCEPT ![i].state = "collected"]
    /\ UNCHANGED <<file_times, debug_info, processed, session_uploaded_files, pc,
                   MAX_WORKERS, uploaded_files, all_pages, total_pages, raster_idx,
                   st_errors, disk, now, telemetry, history>>

\* Lines 191-204: as_completed yields a finished future, future.result()
\* returns.
CollectResult(i) ==
    /\ pc = "pool"
    /\ future_to_page[i].state = "finished"
    /\ ~future_to_page[i].ret.raised
    /\ processed_pages' = processed_pages + 1
    /\ progress' = Append(progress, ProgressNote(processed_pages + 1, total_pages))
    /\ file_results' =
          [file_results EXCEPT ![future_to_page[i].file_name] =
              Append(@, PageResult(future_to_page[i]))]
    /\ future_to_page' = [future_to_page EXCEPT ![i].state = "collected"]
    /\ UNCHANGED <<file_times, debug_info, processed, session_uploaded_files, pc,
                   MAX_WORKERS, uploaded_files, all_pages, total_pages, raster_idx,
                   st_errors, disk, now, telemetry, history>>

\* Line 206.
PageError(f) ==
    <<"Failed to process ", f.file_name, " - Page ", ToString(f.page_idx), ": ">>
        \o f.ret.text

\* Lines 191-194 without the try: the exception leaves the loop, the pool and
\* the processing block.
CollectFailureAborts(i) ==
    /\ pc = "pool"
    /\ future_to_page[i].state = "finished"
    /\ future_to_page[i].ret.raised
    /\ future_to_page' = [future_to_page EXCEPT ![i].state = "collected"]
    /\ pc' = "finish"
    /\ UNCHANGED <<session, MAX_WORKERS, uploaded_files, all_pages, total_pages,
                   raster_idx, processed_pages, progress, st_errors, disk, now, telemetry,
                   history>>

\* Lines 191-194 and 205-206: as_completed yields a finished future,
\* future.result() raises.
CollectFailure(i) ==
    /\ pc = "pool"
    /\ future_to_page[i].state = "finished"
    /\ future_to_page[i].ret.raised
    /\ st_errors' = st_errors \cup {PageError(future_to_page[i])}
    /\ future_to_page' = [future_to_page EXCEPT ![i].state = "collected"]
    /\ UNCHANGED <<session, pc, MAX_WORKERS, uploaded_files, all_pages, total_pages,
                   raster_idx, processed_pages, progress, disk, now, telemetry, history>>

\* list.sort(key=lambda x: x["page"]): stable, ascending.
RECURSIVE InsertByPage(_, _)
InsertByPage(r, s) ==
    IF s = <<>> THEN <<r>>
    ELSE IF r.page < Head(s).page THEN <<r>> \o s
    ELSE <<Head(s)>> \o InsertByPage(r, Tail(s))

\* Lines 209-210 left out: the results stay in the order of collection.
KeepArrivalOrder(s) == s

RECURSIVE SortByPage(_)
SortByPage(s) ==
    IF s = <<>> THEN <<>>
    ELSE InsertByPage(s[Len(s)], SortByPage(SubSeq(s, 1, Len(s) - 1)))

\* Lines 208-212: the pool is left with every future collected, the results of
\* each file are sorted and the run is marked processed.
SortAndMark ==
    /\ pc = "pool"
    /\ \A i \in DOMAIN future_to_page : future_to_page[i].state = "collected"
    /\ file_results' = [f \in DOMAIN file_results |-> SortByPage(file_results[f])]
    /\ processed' = TRUE
    /\ pc' = "finish"
    /\ UNCHANGED <<file_times, debug_info, session_uploaded_files, MAX_WORKERS,
                   uploaded_files, all_pages, total_pages, raster_idx, processed_pages, progress,
                   future_to_page, st_errors, disk, now, telemetry, history>>

\* Lines 214-281 only read the state.  The script ends: its globals are gone,
\* st.session_state stays.
ScriptEnd ==
    /\ pc = "finish"
    /\ pc' = "idle"
    /\ MAX_WORKERS' = 0
    /\ uploaded_files' = <<>>
    /\ all_pages' = <<>>
    /\ total_pages' = 0
    /\ raster_idx' = 1
    /\ processed_pages' = 0
    /\ progress' = <<>>
    /\ future_to_page' = <<>>
    /\ st_errors' = {}
    /\ last_names' = NamesOf(uploaded_files)
    /\ prev_results' = file_results
    /\ prev_times' = file_times
    /\ prev_debug' = debug_info
    /\ UNCHANGED <<session, disk, now, telemetry, captured_before>>

----------------------------------------------------------------------------
\* The claims.

NameSet(names) == {names[i] : i \in DOMAIN names}

PagesOf(results) == [k \in 1..Len(results) |-> results[k].page]

\* The dispatch phase of this execution has ended.
DispatchEnded == pc = "finish" /\ future_to_page # <<>>

\* The processing block ran in this execution, to its end.
BlockEnded == pc = "finish" /\ raster_idx = Len(session_uploaded_files) + 1

\* This execution got the identity set of the execution before it.
SameInputAgain ==
    pc = "finish" /\ now > 1 /\ NameSet(NamesOf(uploaded_files)) = NameSet(last_names)

FuturesOf(file_name) ==
    {i \in DOMAIN future_to_page : future_to_page[i].file_name = file_name}

\* C1: at the end of the dispatch phase the number of stored PageResults equals
\* the number of submitted work items, whatever each item's outcome was.
C1_Closure ==
    DispatchEnded =>
        SumLens(file_results, DOMAIN file_results) = Len(future_to_page)

\* C2: once dispatch has ended, the results of every document that rasterized
\* have the page indices 1, 2, ..., page_count in this order.
C2_Ordering ==
    DispatchEnded =>
        \A f \in DOMAIN debug_info :
            PagesOf(file_results[f]) = [k \in 1..debug_info[f].page_count |-> k]

\* C3: the number of process_page calls in flight never exceeds MAX_WORKERS.
C3_ConcurrencyBound == Cardinality(InFlight) <= MAX_WORKERS

\* C3, its case: the pool is full and an item waits for a thread.
C3_Witness ==
    /\ pc = "pool"
    /\ Cardinality(InFlight) = MAX_WORKERS
    /\ \E i \in DOMAIN future_to_page : future_to_page[i].state = "pending"

\* C4: an execution whose (non-empty) identity set differs from the captured
\* one resets the per-run state, rasterizes and dispatches the new documents,
\* and ends with the results of the new set.
C4_NewInputDetected ==
    (/\ pc = "finish"
     /\ uploaded_files # <<>>
     /\ NameSet(NamesOf(uploaded_files)) # NameSet(captured_before))
        => /\ NamesOf(session_uploaded_files) = NamesOf(uploaded_files)
           /\ raster_idx = Len(uploaded_files) + 1
           /\ Len(future_to_page) = total_pages
           /\ DOMAIN file_results \subseteq NameSet(NamesOf(uploaded_files))

\* C5: a second execution with the same identity set leaves file_results as
\* the execution before it left them.
C5_Idempotent == SameInputAgain => file_results = prev_results

\* C5, its case: the first execution stored page results, the second got the
\* same files.
C5_Witness ==
    /\ SameInputAgain
    /\ \E f \in DOMAIN prev_results : Len(prev_results[f]) > 1

\* C6: after any completed execution, an execution with the same identity set
\* rasterizes nothing, calls no inference and leaves file_results, file_times
\* and debug_info as they were.
C6_NoOpOnUnchanged ==
    SameInputAgain =>
        /\ raster_idx = 1
        /\ future_to_page = <<>>
        /\ file_results = prev_results
        /\ file_times = prev_times
        /\ debug_info = prev_debug

\* C7: when future.result() raises for a work item, only that item is lost:
\* every item was executed and collected, each other item has its one
\* PageResult, the failure is reported, and the run went on to the sort and to
\* processed = True.
C7_PageFailureIsolated ==
    (pc = "finish" /\ \E i \in DOMAIN future_to_page : future_to_page[i].ret.raised)
        => /\ processed
           /\ \A i \in DOMAIN future_to_page :
                LET f == future_to_page[i]
                    stored == {k \in DOMAIN file_results[f.file_name] :
                                  file_results[f.file_name][k].page = f.page_idx}
                IN  /\ f.state = "collected"
                    /\ IF f.ret.raised
                       THEN PageError(f) \in st_errors
                       ELSE /\ Cardinality(stored) = 1
                            /\ \A k \in stored :
                                 file_results[f.file_name][k].text = f.ret.text
           /\ \A n \in DOMAIN file_results :
                \A k, l \in DOMAIN file_results[n] :
                    k < l => file_results[n][k].page < file_results[n][l].page

\* C7, its case: one item raised, a sibling of the same run returned.
C7_Witness ==
    /\ pc = "finish"
    /\ \E i, j \in DOMAIN future_to_page :
          /\ future_to_page[i].ret.raised
          /\ future_to_page[j].ret.posted

\* C8: a document whose rasterization fails has no work item, no PageResult and
\* no entry in the result store, and an error notice names it; every other
\* document of the run that rasterizes has its full ordered result set.
C8_DocumentFailureIsolated ==
    (/\ BlockEnded
     /\ \E k \in DOMAIN session_uploaded_files :
           ~session_uploaded_files[k].data.parseable)
        => \A k \in DOMAIN session_uploaded_files :
             LET uploaded_file == session_uploaded_files[k]
             IN  IF ~uploaded_file.data.parseable
                 THEN /\ uploaded_file.name \notin DOMAIN file_results
                      /\ FuturesOf(uploaded_file.name) = {}
                      /\ \E e \in st_errors : e[2] = uploaded_file.name
                 ELSE /\ uploaded_file.name \in DOMAIN file_results
                      /\ PagesOf(file_results[uploaded_file.name])
                            = [p \in 1..uploaded_file.data.npages |-> p]

\* C9: for a document each of whose pages got its backend call, whichever of
\* the calls answered a non-200 status or raised, the results have one entry
\* per page in ascending page order; a failing page's text is an "Error: ..."
\* or "Exception: ..." string with the elapsed time recorded, every other
\* page's text is the content the backend answered.
C9_ErrorAsText ==
    DispatchEnded =>
        \A n \in DOMAIN file_results :
            (\A i \in FuturesOf(n) : future_to_page[i].met.save_ok)
                => /\ Len(file_results[n]) = debug_info[n].page_count
                   /\ \A k \in DOMAIN file_results[n] :
                        /\ file_results[n][k].page = k
                        /\ \E i \in FuturesOf(n) :
                             LET b == future_to_page[i].met
                                 r == file_results[n][k]
                             IN  /\ future_to_page[i].page_idx = k
                                 /\ r.page_time = b.latency
                                 /\ b.exception # "" => Head(r.text) = "Exception: "
                                 /\ (b.exception = "" /\ b.status # 200)
                                        => Head(r.text) = "Error: "
                                 /\ (b.exception = "" /\ b.status = 200)
                                        => r.text = <<b.body>>

\* C9, its case: a document of two pages, the first answered a 500, the second
\* a 200, and the second was collected first.
C9_Witness ==
    /\ DispatchEnded
    /\ \E i, j \in DOMAIN future_to_page :
          /\ future_to_page[i].file_name = future_to_page[j].file_name
          /\ future_to_page[i].page_idx < future_to_page[j].page_idx
          /\ future_to_page[i].met.status = 500
          /\ future_to_page[j].met.status = 200
          /\ Len(file_results[future_to_page[i].file_name]) = 2

\* C10: MAX_WORKERS is an integer in [1, 4]; it is 2 when a telemetry call
\* throws or no device is reported, and min(4, max(1, floor(free GB / 3)))
\* for the free memory of device 0 otherwise.
C10_Capacity ==
    /\ pc # "idle" => MAX_WORKERS \in 1..4
    /\ pc = "upload" =>
          IF telemetry.throws # "none" \/ telemetry.device_count = 0
          THEN MAX_WORKERS = 2
          ELSE LET third == CHOOSE q \in 0..telemetry.free :
                                /\ q * 3 * 1024 <= telemetry.free
                                /\ telemetry.free < (q + 1) * 3 * 1024
                   low == IF third < 1 THEN 1 ELSE third
               IN  MAX_WORKERS = IF low > 4 THEN 4 ELSE low

\* C10, its case: nvmlShutdown throws after 4 workers were computed.
C10_Witness ==
    /\ pc = "upload"
    /\ telemetry.throws = "nvmlShutdown"
    /\ telemetry.device_count = 1
    /\ telemetry.free = 81920
    /\ MAX_WORKERS = 2

\* The processing block was entered in this execution.
BlockEntered ==
    \/ pc \in {"rasterize", "pool"}
    \/ BlockEnded /\ uploaded_files # <<>>

RECURSIVE SumPageCount(_, _)
SumPageCount(d, keys) ==
    IF keys = {} THEN 0
    ELSE LET k == CHOOSE x \in keys : TRUE
         IN  d[k].page_count + SumPageCount(d, keys \ {k})

\* C11: the observer is notified once per completed work item, the k-th
\* notification carries k of total, and at the end of dispatch the last one
\* carries the number of submitted work items.
C11_Progress ==
    /\ \A k \in DOMAIN progress :
          progress[k] = [count |-> k, total |-> Len(future_to_page)]
    /\ pc \in {"pool", "finish"} =>
          Len(progress) = Cardinality({i \in DOMAIN future_to_page :
                                          future_to_page[i].state = "collected"})
    /\ DispatchEnded => Len(progress) = Len(future_to_page)

\* C12: a run that was started ends with the processed flag set, whatever
\* failed in it.  (That the run ends at all is RunTerminates below.)
C12_RunMarkedComplete == (BlockEnded /\ uploaded_files # <<>>) => processed

\* C13 as claimed: at the end of dispatch process_page and the inference
\* request were each invoked exactly once for every submitted work item.
C13_ExactlyOnce ==
    DispatchEnded =>
        \A i \in DOMAIN future_to_page :
            future_to_page[i].calls = 1 /\ future_to_page[i].posts = 1

\* C13 as amended: process_page is invoked exactly once for every submitted
\* work item, and the inference request at most once: once when process_page
\* got to it, not at all when process_page raised before it.
C13_OncePerItem ==
    \A i \in DOMAIN future_to_page :
        LET f == future_to_page[i]
        IN  /\ f.calls <= 1
            /\ f.posts <= f.calls
            /\ f.state # "pending" => f.calls = 1
            /\ DispatchEnded =>
                  f.calls = 1 /\ f.posts = (IF f.ret.raised THEN 0 ELSE 1)

\* C13, its case: a run ended in which one call raised and another timed out.
C13_Witness ==
    /\ DispatchEnded
    /\ \E i, j \in DOMAIN future_to_page :
          /\ future_to_page[i].ret.raised
          /\ future_to_page[j].met.exception = "Read timed out"

\* C14: the block empties file_results, file_times and debug_info before it
\* rasterizes, so while and after it runs they hold entries of the current
\* documents and of this run only, and so do the error notices.
C14_CleanStart ==
    /\ (pc = "rasterize" /\ raster_idx = 1) =>
          file_results = EmptyDict /\ file_times = EmptyDict /\ debug_info = EmptyDict
    /\ BlockEntered =>
          /\ DOMAIN file_results \subseteq NameSet(NamesOf(uploaded_files))
          /\ DOMAIN file_times \subseteq NameSet(NamesOf(uploaded_files))
          /\ DOMAIN debug_info \subseteq NameSet(NamesOf(uploaded_files))
          /\ \A n \in DOMAIN file_times : file_times[n] = now
          /\ \A n \in DOMAIN file_results :
                \A k \in DOMAIN file_results[n] :
                    \E i \in FuturesOf(n) :
                        /\ future_to_page[i].state = "collected"
                        /\ file_results[n][k] = PageResult(future_to_page[i])
          /\ \A e \in st_errors : e[2] \in NameSet(NamesOf(uploaded_files))

\* C14, its case: the block ran in a second execution, on other files than the
\* ones the first execution left entries for.
C14_Witness ==
    /\ BlockEnded
    /\ uploaded_files # <<>>
    /\ now = 2
    /\ \E n \in DOMAIN prev_results : n \notin DOMAIN file_results

\* C15: a page whose request timed out still has a PageResult, its text is an
\* exception string and its elapsed time is at least the timeout of 60 s.
C15_Timeout ==
    \A i \in DOMAIN future_to_page :
        LET f == future_to_page[i]
        IN  (f.state = "collected" /\ f.met.exception = "Read timed out")
                => \E k \in DOMAIN file_results[f.file_name] :
                      LET r == file_results[f.file_name][k]
                      IN  /\ r.page = f.page_idx
                          /\ Head(r.text) = "Exception: "
                          /\ r.page_time >= 60

\* C15, its case: a page that timed out was collected.
C15_Witness ==
    \E i \in DOMAIN future_to_page :
        /\ future_to_page[i].state = "collected"
        /\ future_to_page[i].met.exception = "Read timed out"

\* The entries stored for a work item.
StoredFor(f) ==
    {k \in DOMAIN file_results[f.file_name] :
        file_results[f.file_name][k].page = f.page_idx}

C17_ResultIdentity ==
    \A n \in DOMAIN file_results :
        \A k \in DOMAIN file_results[n] :
            LET r == file_results[n][k]
            IN  /\ r.image.of = n
                /\ r.image.no = r.page
                /\ r.page \in 1..debug_info[n].page_count

\* C17, its case: results of two documents were collected, the second
\* document's first.
C17_Witness ==
    /\ pc = "pool"
    /\ Len(future_to_page) = 2
    /\ future_to_page[1].file_name # future_to_page[2].file_name
    /\ future_to_page[1].state = "finished"
    /\ future_to_page[2].state = "collected"
    /\ Len(file_results[future_to_page[2].file_name]) = 1

C19_Bookkeeping ==
    (pc = "rasterize" /\ raster_idx > Len(session_uploaded_files))
        => /\ DOMAIN file_results =
                 {session_uploaded_files[k].name : k \in
                     {j \in DOMAIN session_uploaded_files :
                         session_uploaded_files[j].data.parseable}}
           /\ DOMAIN file_times = DOMAIN file_results
           /\ DOMAIN debug_info = DOMAIN file_results
           /\ total_pages = Len(all_pages)
           /\ total_pages = SumPageCount(debug_info, DOMAIN debug_info)

\* C19, its case: of two documents one failed and one gave its pages.
C19_Witness ==
    /\ pc = "rasterize"
    /\ raster_idx > Len(session_uploaded_files)
    /\ st_errors # {}
    /\ total_pages = 2

----------------------------------------------------------------------------
Next ==
    \/ \E t \in Telemetry : EstimateCapacity(t)
    \/ \E names \in Uploads : EnterProcessing(names)
    \/ \E names \in Uploads : SkipProcessing(names)
    \/ RasterizeOk
    \/ RasterizeFail
    \/ NoPages
    \/ SubmitAll
    \/ \E i \in DOMAIN future_to_page : WorkerStart(i)
    \/ \E i \in DOMAIN future_to_page, b \in Backends : WorkerFinish(i, b)
    \/ \E i \in DOMAIN future_to_page : CollectResult(i)
    \/ \E i \in DOMAIN future_to_page : CollectFailure(i)
    \/ SortAndMark
    \/ ScriptEnd

Spec == Init /\ [][Next]_vars

\* A script that was started goes on running: its own steps and the pool's
\* threads are scheduled, every call of process_page returns or raises.
RunSteps ==
    \/ \E names \in Uploads : EnterProcessing(names)
    \/ \E names \in Uploads : SkipProcessing(names)
    \/ RasterizeOk
    \/ RasterizeFail
    \/ NoPages
    \/ SubmitAll
    \/ \E i \in DOMAIN future_to_page : WorkerStart(i)
    \/ \E i \in DOMAIN future_to_page, b \in Backends : WorkerFinish(i, b)
    \/ \E i \in DOMAIN future_to_page : CollectResult(i)
    \/ \E i \in DOMAIN future_to_page : CollectFailure(i)
    \/ SortAndMark
    \/ ScriptEnd

FairSpec == Spec /\ WF_vars(RunSteps)

\* Every execution that was started ends.
RunTerminates == (pc # "idle") ~> (pc = "idle")
====
